---------------------------- MODULE Spec2Model ----------------------------
(***************************************************************************)
(* GitHub repository downloader: the Index page component in its two       *)
(* builds.                                                                 *)
(*   "api"    - src/unnamed/part_000: branch listing through the GitHub    *)
(*              API, archive retrieval through the zipball endpoint with a *)
(*              manual redirect, streamed with measured progress.          *)
(*   "direct" - src/src/pages/Index.tsx: a fixed list of common branches,  *)
(*              a direct archive link handed to the host, simulated        *)
(*              progress.                                                  *)
(* The state is the component's React state plus what is in flight: the    *)
(* debounce timer, the branch-listing requests, the handleDownload         *)
(* invocations (tasks), and the save the last step handed to the host.     *)
(*                                                                         *)
(* Text is a sequence of strings: a URL is a sequence of one-character     *)
(* strings, a message or a file name is the sequence of the parts of its   *)
(* template literal.                                                       *)
(***************************************************************************)
EXTENDS Integers, Sequences, FiniteSets, TLC

(***************************************************************************)
(* Bounds of the model.                                                    *)
(***************************************************************************)
\* handleDownload invocations (with their interval timers) alive at once
MaxTasks == 2
\* branch-listing requests in flight at once
MaxBranchReqs == 2
\* chunks the remote delivers in one stream
MaxChunks == 2
\* largest declared content-length
MaxTotal == 3

(***************************************************************************)
(* Program constants.                                                      *)
(***************************************************************************)
ProgressStep == 15
ProgressStop == 100
IntervalMs == 150
SettleMs == 1000

(***************************************************************************)
(* Characters and URLs.                                                    *)
(***************************************************************************)
Lower == {"a","b","c","d","e","f","g","h","i","j","k","l","m",
          "n","o","p","q","r","s","t","u","v","w","x","y","z"}
Upper == {"A","B","C","D","E","F","G","H","I","J","K","L","M",
          "N","O","P","Q","R","S","T","U","V","W","X","Y","Z"}
Digit == {"0","1","2","3","4","5","6","7","8","9"}

\* the regular expression class [\w.-]
SegmentChar == Lower \cup Upper \cup Digit \cup {"_", ".", "-"}

HttpsGithub == <<"h","t","t","p","s",":","/","/",
                 "g","i","t","h","u","b",".","c","o","m","/">>
GithubCom == <<"g","i","t","h","u","b",".","c","o","m","/">>
DotGit == <<".","g","i","t">>

StartsWithAt(s, i, p) ==
    /\ i >= 1
    /\ i + Len(p) - 1 <= Len(s)
    /\ SubSeq(s, i, i + Len(p) - 1) = p

EndsWith(s, p) ==
    /\ Len(s) >= Len(p)
    /\ SubSeq(s, Len(s) - Len(p) + 1, Len(s)) = p

\* s.replace(/\.git$/, '')
StripGit(s) ==
    IF EndsWith(s, DotGit) THEN SubSeq(s, 1, Len(s) - Len(DotGit)) ELSE s

\* number of characters other than "/" from position i on: the greedy [^\/]+
RECURSIVE NonSlashRun(_, _)
NonSlashRun(s, i) ==
    IF i > Len(s) \/ s[i] = "/" THEN 0 ELSE 1 + NonSlashRun(s, i + 1)

AllSegmentChars(s) == \A k \in 1..Len(s) : s[k] \in SegmentChar

\* /^https:\/\/github\.com\/[\w.-]+\/[\w.-]+\/?$/ .test(s)
GithubPattern(s) ==
    /\ StartsWithAt(s, 1, HttpsGithub)
    /\ LET o    == Len(HttpsGithub) + 1
           n1   == NonSlashRun(s, o)
           r    == o + n1 + 1
           n2   == NonSlashRun(s, r)
           rest == r + n2
       IN  /\ n1 >= 1
           /\ o + n1 <= Len(s)
           /\ AllSegmentChars(SubSeq(s, o, o + n1 - 1))
           /\ n2 >= 1
           /\ AllSegmentChars(SubSeq(s, r, r + n2 - 1))
           /\ \/ rest = Len(s) + 1
              \/ rest = Len(s) /\ s[rest] = "/"

NoRepoInfo == [found |-> FALSE, owner |-> <<>>, repo |-> <<>>]

\* url.match(/github\.com\/([^\/]+)\/([^\/]+)/) tried at position i
MatchRepoAt(url, i) ==
    LET o  == i + Len(GithubCom)
        n1 == NonSlashRun(url, o)
        r  == o + n1 + 1
        n2 == NonSlashRun(url, r)
    IN  IF /\ StartsWithAt(url, i, GithubCom)
           /\ n1 >= 1
           /\ o + n1 <= Len(url)
           /\ n2 >= 1
        THEN [found |-> TRUE,
              owner |-> SubSeq(url, o, o + n1 - 1),
              repo  |-> StripGit(SubSeq(url, r, r + n2 - 1))]
        ELSE NoRepoInfo

\* the leftmost match, as String.prototype.match finds it
RECURSIVE MatchRepoFrom(_, _)
MatchRepoFrom(url, i) ==
    IF i > Len(url) THEN NoRepoInfo
    ELSE IF MatchRepoAt(url, i).found THEN MatchRepoAt(url, i)
    ELSE MatchRepoFrom(url, i + 1)

extractRepoInfo(url) == MatchRepoFrom(url, 1)

\* mutant: the pattern without its anchors and its scheme
validateGitHubUrl_Unanchored(url) == MatchRepoFrom(StripGit(url), 1).found

validateGitHubUrl(url) == GithubPattern(StripGit(url))

(***************************************************************************)
(* The inputs the user and the remote are drawn from.                      *)
(***************************************************************************)
EmptyUrl == <<>>
\* https://github.com/a/r
UrlA == HttpsGithub \o <<"a", "/", "r">>
\* https://github.com/a/s.git
UrlB == HttpsGithub \o <<"a", "/", "s">> \o DotGit
\* http://github.com/a/r  (not https)
UrlHttp == <<"h","t","t","p",":","/","/">> \o GithubCom \o <<"a", "/", "r">>
Urls == {EmptyUrl, UrlA, UrlHttp}
MalformedUrls == {UrlHttp}

Tokens == {"", "ghp"}
BranchNames == {"main", "master", "dev"}
CustomBranches == {"", "v1"}

\* what a branch-listing answer can hold: branches in any order, none twice
RemoteBranchLists ==
    {<<>>} \cup
    {<<[name |-> a]>> : a \in BranchNames} \cup
    {<<[name |-> p[1]], [name |-> p[2]]>> :
        p \in {q \in BranchNames \X BranchNames : q[1] # q[2]}} \cup
    {<<[name |-> "dev"], [name |-> "master"], [name |-> "main"]>>}

Statuses == {200, 301, 302, 401, 404, 500}

\* `${response.status}`
StatusText(status) ==
    CASE status = 0 -> "0"
      [] status = 200 -> "200"
      [] status = 301 -> "301"
      [] status = 302 -> "302"
      [] status = 401 -> "401"
      [] status = 404 -> "404"
      [] status = 500 -> "500"

\* response.ok
Ok(status) == status >= 200 /\ status <= 299

\* the sizes, in bytes, of the chunks a stream delivers
ChunkSizes == {1, 2}

\* a chunk of n bytes (each byte is n, so chunks of different sizes differ)
Chunk(n) == [k \in 1..n |-> n]

(***************************************************************************)
(* Messages.                                                               *)
(***************************************************************************)
NoMessage == <<>>
EnterUrlMsg == <<"Please enter a repository URL">>
InvalidUrlMsg == <<"Please enter a valid GitHub repository URL">>
SelectBranchMsg == <<"Please select a branch to download">>
SelectOrCustomBranchMsg ==
    <<"Please select a branch or enter a custom branch name">>
TokenRequiredMsg == <<"Private repositories require a GitHub token">>
ParseFailedMsg == <<"Could not parse repository information">>
RepoNotFoundMsg == <<"Repository not found or you don't have access to it">>
BranchNotFoundMsg == <<"Repository or branch not found">>
BadTokenMsg == <<"Invalid GitHub token or insufficient permissions">>
NoLocationMsg == <<"Failed to get download URL">>
NoStreamMsg == <<"Failed to read download stream">>
\* the message of the TypeError a rejected fetch carries
TransportMsg == <<"Failed to fetch">>
\* the message of the error a rejected reader.read() carries: the host's
\* own text, "network error" in Chrome, "terminated" in Node
ReadErrorMsgs == {<<"network error">>, <<"terminated">>}
\* the message of the SyntaxError response.json() rejects with on a body
\* that is no JSON (the host's text, which quotes the body)
JsonSyntaxMsg ==
    <<"Unexpected token '<', \"<html>Sign\"... is not valid JSON">>
\* the message of the TypeError branchesData.find(...) throws when the body
\* is JSON but no array
NotArrayMsg == <<"branchesData.find is not a function">>
ApiErrorMsg(status) == <<"GitHub API error: ", StatusText(status)>>
DownloadStatusMsg(status) == <<"Download failed: ", StatusText(status)>>

\* `Download failed: ${errorMessage}`
DownloadFailedMsg(errorMessage) == <<"Download failed: ">> \o errorMessage

\* `Successfully downloaded ${repoInfo.repo} (${selectedBranch} branch)`
DownloadedMsg(repo, branch) ==
    <<"Successfully downloaded ">> \o repo \o <<" (", branch, " branch)">>

\* `Download initiated for ${repoInfo.repo} (${finalBranch} branch). ...`
InitiatedMsg(repo, branch) ==
    <<"Download initiated for ">> \o repo
        \o <<" (", branch, " branch). Check your downloads folder.">>

\* `${repo}-${branch}.zip`
ZipName(repo, branch) == repo \o <<"-", branch, ".zip">>

(***************************************************************************)
(* State.                                                                  *)
(***************************************************************************)
VARIABLES
    build,              \* "api" or "direct": which build of the page runs
    repoUrl,            \* useState('')
    branches,           \* useState<Branch[]>([])
    selectedBranch,     \* useState('')
    customBranch,       \* useState('')  (direct build)
    token,              \* useState('')
    isPrivate,          \* useState(false)
    isDownloading,      \* useState(false)
    isLoadingBranches,  \* useState(false)  (api build)
    downloadProgress,   \* useState(0)
    error,              \* useState('')
    success,            \* useState('')
    debounce,           \* the auto-load effect's timer is pending (api build)
    branchReqs,         \* branch-listing requests in flight, oldest first
    tasks,              \* handleDownload invocations not yet over
    saved               \* the save the last step handed to the host, if any

vars == <<build, repoUrl, branches, selectedBranch, customBranch, token,
          isPrivate, isDownloading, isLoadingBranches, downloadProgress,
          error, success, debounce, branchReqs, tasks, saved>>

\* no save: what `saved` holds after a step that handed the host nothing
NoSave == [filename |-> <<>>, via |-> "none", bytes |-> <<>>, calls |-> <<>>]

\* the calls downloadRepository makes on the host to click its link
LinkCalls == <<"createElement", "appendChild", "click", "removeChild">>

\* mutant: the object URL of the blob is never revoked
Materialize_NoRevoke ==
    <<"createObjectURL", "createElement", "appendChild", "click",
      "removeChild">>

\* the calls downloadWithAuth makes on the host to save the blob, in
\* program order
Materialize ==
    <<"createObjectURL", "createElement", "appendChild", "click",
      "removeChild", "revokeObjectURL">>

\* s without its i-th element
RemoveAt(s, i) == SubSeq(s, 1, i - 1) \o SubSeq(s, i + 1, Len(s))

CommonBranches ==
    <<[name |-> "main"], [name |-> "master"],
      [name |-> "develop"], [name |-> "dev"]>>

Init ==
    /\ build \in {"api", "direct"}
    /\ repoUrl = EmptyUrl
    /\ branches = <<>>
    /\ selectedBranch = ""
    /\ customBranch = ""
    /\ token = ""
    /\ isPrivate = FALSE
    /\ isDownloading = FALSE
    /\ isLoadingBranches = FALSE
    /\ downloadProgress = 0
    /\ error = NoMessage
    /\ success = NoMessage
    /\ debounce = (build = "api")
    /\ branchReqs = <<>>
    /\ tasks = <<>>
    /\ saved = NoSave

(***************************************************************************)
(* The form: the user's edits and the effects they schedule.               *)
(***************************************************************************)
\* the effect of the direct build on [repoUrl]: the common branches
CommonBranchesEffect(url) ==
    IF url # EmptyUrl /\ validateGitHubUrl(url)
    THEN /\ branches' = CommonBranches
         /\ selectedBranch' = "main"
         /\ error' = NoMessage
    ELSE /\ branches' = <<>>
         /\ selectedBranch' = ""
         /\ UNCHANGED error

\* the effect of the api build on [repoUrl, isPrivate, token]: the pending
\* timer is cleared and a new one is set
AutoLoadEffect ==
    /\ debounce' = TRUE
    /\ UNCHANGED <<branches, selectedBranch, error>>

\* onChange of the repository URL input
SetRepoUrl(url) ==
    /\ url # repoUrl
    /\ repoUrl' = url
    /\ IF build = "api"
       THEN AutoLoadEffect
       ELSE CommonBranchesEffect(url) /\ UNCHANGED debounce
    /\ saved' = NoSave
    /\ UNCHANGED <<build, customBranch, token, isPrivate, isDownloading,
                   isLoadingBranches, downloadProgress, success,
                   branchReqs, tasks>>

\* onClick of the private/public button
TogglePrivate ==
    /\ isPrivate' = ~isPrivate
    /\ IF build = "api"
       THEN AutoLoadEffect
       ELSE UNCHANGED <<debounce, branches, selectedBranch, error>>
    /\ saved' = NoSave
    /\ UNCHANGED <<build, repoUrl, customBranch, token, isDownloading,
                   isLoadingBranches, downloadProgress, success,
                   branchReqs, tasks>>

\* onChange of the token input, rendered while isPrivate
SetToken(t) ==
    /\ isPrivate
    /\ t # token
    /\ token' = t
    /\ IF build = "api"
       THEN AutoLoadEffect
       ELSE UNCHANGED <<debounce, branches, selectedBranch, error>>
    /\ saved' = NoSave
    /\ UNCHANGED <<build, repoUrl, customBranch, isPrivate, isDownloading,
                   isLoadingBranches, downloadProgress, success,
                   branchReqs, tasks>>

\* onValueChange of the branch select, rendered while branches.length > 0
SelectBranch(b) ==
    /\ Len(branches) > 0
    /\ \E k \in 1..Len(branches) : branches[k].name = b
    /\ b # selectedBranch
    /\ selectedBranch' = b
    /\ saved' = NoSave
    /\ UNCHANGED <<build, repoUrl, branches, customBranch, token, isPrivate,
                   isDownloading, isLoadingBranches, downloadProgress, error,
                   success, debounce, branchReqs, tasks>>

\* onChange of the custom branch input (direct build), rendered while
\* branches.length > 0
SetCustomBranch(c) ==
    /\ build = "direct"
    /\ Len(branches) > 0
    /\ c # customBranch
    /\ customBranch' = c
    /\ saved' = NoSave
    /\ UNCHANGED <<build, repoUrl, branches, selectedBranch, token, isPrivate,
                   isDownloading, isLoadingBranches, downloadProgress, error,
                   success, debounce, branchReqs, tasks>>

(***************************************************************************)
(* Branch resolution (api build).                                          *)
(***************************************************************************)
\* mutant: the token is attached whenever one is held
AuthFor_AnyToken(private, tok) == tok

\* the Authorization header a request is built with: the token when the
\* repository is marked private and the token is non-empty, else none ("")
AuthFor(private, tok) == IF private THEN tok ELSE ""

\* the errors response.json() can reject with on an ok answer: the
\* SyntaxError of a body that is no JSON, the TypeError of a body cut off
JsonRejections == {JsonSyntaxMsg, TransportMsg}

\* what a branch-listing request can be answered with: the fetch rejects
\* (transport), or resolves with a status; an ok answer has a body, which
\* response.json() reads as an array (data), as JSON that is no array
\* (object), or rejects with a reason
BranchResponses ==
    {[kind |-> "transport", status |-> 0, json |-> "none", data |-> <<>>,
      reason |-> NoMessage]} \cup
    {[kind |-> "http", status |-> st, json |-> "none", data |-> <<>>,
      reason |-> NoMessage] : st \in {401, 404, 500}} \cup
    {[kind |-> "http", status |-> 200, json |-> "array", data |-> d,
      reason |-> NoMessage] : d \in RemoteBranchLists} \cup
    {[kind |-> "http", status |-> 200, json |-> "object", data |-> <<>>,
      reason |-> NoMessage]} \cup
    {[kind |-> "http", status |-> 200, json |-> "rejected", data |-> <<>>,
      reason |-> m] : m \in JsonRejections}

\* the answer makes fetchBranches throw before it reads the body: the fetch
\* rejected, or the status is not ok
ThrowsOnStatus(resp) == resp.kind = "transport" \/ ~Ok(resp.status)

\* mutant: no case for the unauthorized status
fetchBranches_No401(resp) ==
    IF resp.kind = "transport"
    THEN [ok |-> FALSE, data |-> <<>>, array |-> FALSE,
          message |-> TransportMsg]
    ELSE IF resp.status = 404
    THEN [ok |-> FALSE, data |-> <<>>, array |-> FALSE,
          message |-> RepoNotFoundMsg]
    ELSE IF ~Ok(resp.status)
    THEN [ok |-> FALSE, data |-> <<>>, array |-> FALSE,
          message |-> ApiErrorMsg(resp.status)]
    ELSE IF resp.json = "rejected"
    THEN [ok |-> FALSE, data |-> <<>>, array |-> FALSE,
          message |-> resp.reason]
    ELSE [ok |-> TRUE, data |-> resp.data, array |-> resp.json = "array",
          message |-> NoMessage]

\* fetchBranches, from the answer on: the data response.json() resolves
\* with (array: it is an array), or the message of the error thrown
fetchBranches(resp) ==
    IF resp.kind = "transport"
    THEN [ok |-> FALSE, data |-> <<>>, array |-> FALSE,
          message |-> TransportMsg]
    ELSE IF resp.status = 404
    THEN [ok |-> FALSE, data |-> <<>>, array |-> FALSE,
          message |-> RepoNotFoundMsg]
    ELSE IF resp.status = 401
    THEN [ok |-> FALSE, data |-> <<>>, array |-> FALSE,
          message |-> BadTokenMsg]
    ELSE IF ~Ok(resp.status)
    THEN [ok |-> FALSE, data |-> <<>>, array |-> FALSE,
          message |-> ApiErrorMsg(resp.status)]
    ELSE IF resp.json = "rejected"
    THEN [ok |-> FALSE, data |-> <<>>, array |-> FALSE,
          message |-> resp.reason]
    ELSE [ok |-> TRUE, data |-> resp.data, array |-> resp.json = "array",
          message |-> NoMessage]

\* branchesData.find(b => b.name === name): the index of the first, or 0
RECURSIVE FindBranchFrom(_, _, _)
FindBranchFrom(branchesData, name, k) ==
    IF k > Len(branchesData) THEN 0
    ELSE IF branchesData[k].name = name THEN k
    ELSE FindBranchFrom(branchesData, name, k + 1)

\* find 'main' || find 'master' || branchesData[0]: an index, 0 for undefined
defaultBranch(branchesData) ==
    IF FindBranchFrom(branchesData, "main", 1) # 0
    THEN FindBranchFrom(branchesData, "main", 1)
    ELSE IF FindBranchFrom(branchesData, "master", 1) # 0
    THEN FindBranchFrom(branchesData, "master", 1)
    ELSE IF Len(branchesData) > 0 THEN 1
    ELSE 0

\* loadBranches up to the await: the guards, the flags, the request sent
\* (stage: the await the request stands at, that of the fetch or that of
\* response.json())
loadBranches ==
    IF repoUrl = EmptyUrl \/ ~validateGitHubUrl(repoUrl)
       \/ ~extractRepoInfo(repoUrl).found
    THEN UNCHANGED <<isLoadingBranches, error, branchReqs>>
    ELSE /\ isLoadingBranches' = TRUE
         /\ error' = NoMessage
         /\ branchReqs' = Append(branchReqs,
                [owner |-> extractRepoInfo(repoUrl).owner,
                 repo  |-> extractRepoInfo(repoUrl).repo,
                 auth  |-> AuthFor(isPrivate, token),
                 stage |-> "fetch"])

\* mutant: the timer's callback leaves the old branches in place when the
\* URL is empty or invalid
AutoLoadTimer_KeepsBranches ==
    /\ build = "api"
    /\ debounce
    /\ (repoUrl # EmptyUrl /\ validateGitHubUrl(repoUrl))
           => Len(branchReqs) < MaxBranchReqs
    /\ debounce' = FALSE
    /\ IF repoUrl # EmptyUrl /\ validateGitHubUrl(repoUrl)
       THEN loadBranches /\ UNCHANGED <<branches, selectedBranch>>
       ELSE UNCHANGED <<branches, selectedBranch, isLoadingBranches, error,
                        branchReqs>>
    /\ saved' = NoSave
    /\ UNCHANGED <<build, repoUrl, customBranch, token, isPrivate,
                   isDownloading, downloadProgress, success, tasks>>

\* the callback of the auto-load effect's timer
AutoLoadTimer ==
    /\ build = "api"
    /\ debounce
    /\ (repoUrl # EmptyUrl /\ validateGitHubUrl(repoUrl))
           => Len(branchReqs) < MaxBranchReqs
    /\ debounce' = FALSE
    /\ IF repoUrl # EmptyUrl /\ validateGitHubUrl(repoUrl)
       THEN loadBranches /\ UNCHANGED <<branches, selectedBranch>>
       ELSE /\ branches' = <<>>
            /\ selectedBranch' = ""
            /\ UNCHANGED <<isLoadingBranches, error, branchReqs>>
    /\ saved' = NoSave
    /\ UNCHANGED <<build, repoUrl, customBranch, token, isPrivate,
                   isDownloading, downloadProgress, success, tasks>>

\* loadBranches' catch and finally
ListingFailed(i, message) ==
    /\ error' = message
    /\ branches' = <<>>
    /\ selectedBranch' = ""
    /\ isLoadingBranches' = FALSE
    /\ branchReqs' = RemoveAt(branchReqs, i)

\* the fetch of fetchBranches settles: a rejected fetch or a status that is
\* not ok throws, into loadBranches' catch and finally; an ok status goes
\* on to await response.json() and changes nothing yet
BranchesAnswered(i, resp) ==
    /\ i \in 1..Len(branchReqs)
    /\ branchReqs[i].stage = "fetch"
    /\ IF ThrowsOnStatus(resp)
       THEN ListingFailed(i, fetchBranches(resp).message)
       ELSE /\ branchReqs' = [branchReqs EXCEPT ![i].stage = "json"]
            /\ UNCHANGED <<branches, selectedBranch, error,
                           isLoadingBranches>>
    /\ saved' = NoSave
    /\ UNCHANGED <<build, repoUrl, customBranch, token, isPrivate,
                   isDownloading, downloadProgress, success, debounce,
                   tasks>>

\* response.json() settles and loadBranches runs on from its await: the
\* rest of the try, or the catch, and the finally
BranchesLoaded(i, resp) ==
    /\ i \in 1..Len(branchReqs)
    /\ branchReqs[i].stage = "json"
    /\ ~ThrowsOnStatus(resp)
    /\ LET got == fetchBranches(resp)
           d   == defaultBranch(got.data)
       IN  IF ~got.ok THEN ListingFailed(i, got.message)
           ELSE IF ~got.array THEN ListingFailed(i, NotArrayMsg)
           ELSE /\ branches' = got.data
                /\ selectedBranch' =
                       IF d # 0 THEN got.data[d].name ELSE selectedBranch
                /\ isLoadingBranches' = FALSE
                /\ branchReqs' = RemoveAt(branchReqs, i)
                /\ UNCHANGED error
    /\ saved' = NoSave
    /\ UNCHANGED <<build, repoUrl, customBranch, token, isPrivate,
                   isDownloading, downloadProgress, success, debounce,
                   tasks>>

(***************************************************************************)
(* The download action.                                                    *)
(***************************************************************************)
\* mutant: the button is not disabled while a download runs
DownloadDisabledApi_NoBusy == selectedBranch = ""

\* the download button's disabled attribute (api build)
DownloadDisabledApi == isDownloading \/ selectedBranch = ""

\* the download button's disabled attribute (direct build)
DownloadDisabledDirect ==
    isDownloading \/ (selectedBranch = "" /\ customBranch = "")

\* one handleDownload invocation: what its closure captured and the locals
\* of the retrieval it awaits
NewTask(pc, info, branch, auth) ==
    [pc |-> pc, owner |-> info.owner, repo |-> info.repo, branch |-> branch,
     auth |-> auth, sent |-> auth, fetches |-> IF pc = "fetch1" THEN 1 ELSE 0,
     total |-> 0, downloaded |-> 0, chunks |-> <<>>, reports |-> <<>>,
     progress |-> 0, interval |-> (pc = "settle")]

\* an early return of handleDownload: setError(message); return
Reject(message) ==
    /\ error' = message
    /\ saved' = NoSave
    /\ UNCHANGED <<isDownloading, tasks>>

\* handleDownload of the api build, up to the first await:
\* downloadWithAuth has sent the zipball request
handleDownloadApi ==
    /\ success' = NoMessage
    /\ downloadProgress' = 0
    /\ IF repoUrl = EmptyUrl THEN Reject(EnterUrlMsg)
       ELSE IF ~validateGitHubUrl(repoUrl) THEN Reject(InvalidUrlMsg)
       ELSE IF selectedBranch = "" THEN Reject(SelectBranchMsg)
       ELSE IF isPrivate /\ token = "" THEN Reject(TokenRequiredMsg)
       ELSE IF ~extractRepoInfo(repoUrl).found THEN Reject(ParseFailedMsg)
       ELSE /\ Len(tasks) < MaxTasks
            /\ error' = NoMessage
            /\ isDownloading' = TRUE
            /\ tasks' = Append(tasks,
                   NewTask("fetch1", extractRepoInfo(repoUrl), selectedBranch,
                           AuthFor(isPrivate, token)))
            /\ saved' = NoSave

\* mutant: the operands the wrong way round, the select wins
finalBranch_SelectedFirst ==
    IF selectedBranch # "" THEN selectedBranch ELSE customBranch

\* customBranch || selectedBranch
finalBranch == IF customBranch # "" THEN customBranch ELSE selectedBranch

\* the link downloadRepository clicks: the host fetches the archive itself
ArchiveLink(info, branch) ==
    [filename |-> ZipName(info.repo, branch), via |-> "link", bytes |-> <<>>,
     calls |-> LinkCalls]

\* handleDownload of the direct build, up to the first await:
\* downloadRepository has clicked the link, set the interval and the timeout
handleDownloadDirect ==
    /\ success' = NoMessage
    /\ downloadProgress' = 0
    /\ IF repoUrl = EmptyUrl THEN Reject(EnterUrlMsg)
       ELSE IF ~validateGitHubUrl(repoUrl) THEN Reject(InvalidUrlMsg)
       ELSE IF finalBranch = "" THEN Reject(SelectOrCustomBranchMsg)
       ELSE IF ~extractRepoInfo(repoUrl).found THEN Reject(ParseFailedMsg)
       ELSE /\ Len(tasks) < MaxTasks
            /\ error' = NoMessage
            /\ isDownloading' = TRUE
            /\ saved' = ArchiveLink(extractRepoInfo(repoUrl), finalBranch)
            /\ tasks' = Append(tasks,
                   NewTask("settle", extractRepoInfo(repoUrl), finalBranch, ""))

\* onClick of the download button, which a disabled button does not deliver
ClickDownload ==
    /\ IF build = "api"
       THEN ~DownloadDisabledApi /\ handleDownloadApi
       ELSE ~DownloadDisabledDirect /\ handleDownloadDirect
    /\ UNCHANGED <<build, repoUrl, branches, selectedBranch, customBranch,
                   token, isPrivate, isLoadingBranches, debounce, branchReqs>>

(***************************************************************************)
(* Archive retrieval (api build): downloadWithAuth from the first await    *)
(* on, and the catch and finally of the handleDownload that awaits it.     *)
(***************************************************************************)
\* mutant: a failed attempt sends the zipball request again
DownloadFailed_Retries(i, errorMessage) ==
    /\ tasks' = [tasks EXCEPT ![i].pc = "fetch1",
                              ![i].sent = tasks[i].auth,
                              ![i].fetches = @ + 1]
    /\ saved' = NoSave
    /\ UNCHANGED <<error, success, isDownloading, downloadProgress>>

\* mutant: the catch without the finally, the busy flag is left set
DownloadFailed_NoFinally(i, errorMessage) ==
    /\ error' = DownloadFailedMsg(errorMessage)
    /\ tasks' = RemoveAt(tasks, i)
    /\ saved' = NoSave
    /\ UNCHANGED <<success, isDownloading, downloadProgress>>

\* handleDownload's catch and finally
DownloadFailed(i, errorMessage) ==
    /\ error' = DownloadFailedMsg(errorMessage)
    /\ isDownloading' = FALSE
    /\ downloadProgress' = 0
    /\ tasks' = RemoveAt(tasks, i)
    /\ saved' = NoSave
    /\ UNCHANGED success

\* what the remote can answer the zipball request with
FirstResponses ==
    {[kind |-> "transport", status |-> 0, location |-> FALSE]} \cup
    {[kind |-> "http", status |-> st, location |-> loc] :
        st \in Statuses, loc \in BOOLEAN}

\* the statuses fetch takes for a redirect
RedirectStatuses == {301, 302}

\* the response a browser resolves a fetch with redirect: 'manual' to when
\* the answer is a redirect: status 0 and no readable header
OpaqueRedirect == [kind |-> "http", status |-> 0, location |-> FALSE]

\* the responses fetch(..., {redirect: 'manual'}) can resolve to for an
\* answer of the remote: the answer as it is, and for a redirect, on a host
\* that filters it (a browser), the opaque redirect
Delivered(resp) ==
    IF resp.kind = "http" /\ resp.status \in RedirectStatuses
    THEN {resp, OpaqueRedirect}
    ELSE {resp}

\* what downloadWithAuth does with the response the first fetch resolved
\* to: it throws the message, or goes on to fetch the location
firstOutcome(resp) ==
    IF resp.kind = "transport" THEN [thrown |-> TRUE, message |-> TransportMsg]
    ELSE IF resp.status = 302
    THEN IF ~resp.location
         THEN [thrown |-> TRUE, message |-> NoLocationMsg]
         ELSE [thrown |-> FALSE, message |-> NoMessage]
    ELSE IF resp.status = 404
    THEN [thrown |-> TRUE, message |-> BranchNotFoundMsg]
    ELSE IF resp.status = 401
    THEN [thrown |-> TRUE, message |-> BadTokenMsg]
    ELSE [thrown |-> TRUE, message |-> ApiErrorMsg(resp.status)]

\* the zipball request is answered with resp, and the fetch resolves to
\* one of the responses the host can deliver for it
FirstResponse(i, resp) ==
    /\ i \in 1..Len(tasks)
    /\ tasks[i].pc = "fetch1"
    /\ \E response \in Delivered(resp) :
          IF firstOutcome(response).thrown
          THEN DownloadFailed(i, firstOutcome(response).message)
          ELSE /\ tasks' = [tasks EXCEPT ![i].pc = "fetch2",
                                         ![i].sent = "",
                                         ![i].fetches = @ + 1]
               /\ saved' = NoSave
               /\ UNCHANGED <<error, success, isDownloading,
                              downloadProgress>>
    /\ UNCHANGED <<build, repoUrl, branches, selectedBranch, customBranch,
                   token, isPrivate, isLoadingBranches, debounce, branchReqs>>

\* a content-length header: -1 when the response carries none
ContentLengths == -1..MaxTotal

\* what the request to the redirect location can be answered with
SecondResponses ==
    {[kind |-> "transport", status |-> 0, contentLength |-> -1,
      body |-> FALSE]} \cup
    {[kind |-> "http", status |-> st, contentLength |-> -1, body |-> FALSE] :
        st \in {401, 404, 500}} \cup
    {[kind |-> "http", status |-> 200, contentLength |-> cl, body |-> b] :
        cl \in ContentLengths, b \in BOOLEAN}

\* contentLength ? parseInt(contentLength, 10) : 0
ParseTotal(contentLength) == IF contentLength = -1 THEN 0 ELSE contentLength

\* what downloadWithAuth does with the answer to the request to the
\* location: it throws the message, or goes on to read the stream
secondOutcome(resp) ==
    IF resp.kind = "transport" THEN [thrown |-> TRUE, message |-> TransportMsg]
    ELSE IF ~Ok(resp.status)
    THEN [thrown |-> TRUE, message |-> DownloadStatusMsg(resp.status)]
    ELSE IF ~resp.body THEN [thrown |-> TRUE, message |-> NoStreamMsg]
    ELSE [thrown |-> FALSE, message |-> NoMessage]

\* the request to the redirect location is answered
SecondResponse(i, resp) ==
    /\ i \in 1..Len(tasks)
    /\ tasks[i].pc = "fetch2"
    /\ IF secondOutcome(resp).thrown
       THEN DownloadFailed(i, secondOutcome(resp).message)
       ELSE /\ tasks' = [tasks EXCEPT
                            ![i].pc = "read",
                            ![i].total = ParseTotal(resp.contentLength)]
            /\ saved' = NoSave
            /\ UNCHANGED <<error, success, isDownloading, downloadProgress>>
    /\ UNCHANGED <<build, repoUrl, branches, selectedBranch, customBranch,
                   token, isPrivate, isLoadingBranches, debounce, branchReqs>>

\* mutant: the ratio taken the wrong way round
Percent_Inverted(downloaded, total) ==
    (200 * total + downloaded) \div (2 * downloaded)

\* the greatest common divisor
RECURSIVE Gcd(_, _)
Gcd(a, b) == IF b = 0 THEN a ELSE Gcd(b, a % b)

\* the fractions n/m in lowest terms, up to 4, of which a hundred times is
\* a whole number and a half, but of which the double (n / m) * 100 falls
\* short of the half: 23/40 gives 57.49999999999999
ShortOfHalf ==
    {<<23, 40>>, <<41, 40>>, <<51, 40>>, <<87, 40>>, <<97, 40>>,
     <<29, 200>>, <<57, 200>>, <<113, 200>>, <<201, 200>>, <<203, 200>>,
     <<207, 200>>, <<251, 200>>, <<253, 200>>, <<427, 200>>, <<431, 200>>,
     <<439, 200>>, <<477, 200>>, <<481, 200>>, <<489, 200>>}

\* Math.round((downloaded / total) * 100), for total > 0 and downloaded up
\* to 4 * total: the quotient rounded to the nearest whole number, a half
\* upwards, computed in doubles
Percent(downloaded, total) ==
    LET g == Gcd(downloaded, total)
    IN  IF <<downloaded \div g, total \div g>> \in ShortOfHalf
        THEN (100 * downloaded) \div total
        ELSE (200 * downloaded + total) \div (2 * total)

\* reader.read() resolves with a chunk of n bytes
ReadChunk(i, n) ==
    /\ i \in 1..Len(tasks)
    /\ tasks[i].pc = "read"
    /\ Len(tasks[i].chunks) < MaxChunks
    /\ LET downloaded == tasks[i].downloaded + Len(Chunk(n))
           total      == tasks[i].total
       IN  /\ tasks' = [tasks EXCEPT
                  ![i].chunks = Append(@, Chunk(n)),
                  ![i].downloaded = downloaded,
                  ![i].reports = IF total > 0
                                 THEN Append(@, Percent(downloaded, total))
                                 ELSE @]
           /\ downloadProgress' = IF total > 0
                                  THEN Percent(downloaded, total)
                                  ELSE downloadProgress
    /\ saved' = NoSave
    /\ UNCHANGED <<build, repoUrl, branches, selectedBranch, customBranch,
                   token, isPrivate, isDownloading, isLoadingBranches, error,
                   success, debounce, branchReqs>>

\* reader.read() rejects, with the message the host gives its error
ReadError(i, message) ==
    /\ i \in 1..Len(tasks)
    /\ tasks[i].pc = "read"
    /\ DownloadFailed(i, message)
    /\ UNCHANGED <<build, repoUrl, branches, selectedBranch, customBranch,
                   token, isPrivate, isLoadingBranches, debounce, branchReqs>>

\* mutant: the chunks put together last first
RECURSIVE Blob_Reversed(_)
Blob_Reversed(chunks) ==
    IF chunks = <<>> THEN <<>>
    ELSE Blob_Reversed(Tail(chunks)) \o Head(chunks)

\* new Blob(chunks): the chunks one after the other
RECURSIVE Blob(_)
Blob(chunks) ==
    IF chunks = <<>> THEN <<>> ELSE Head(chunks) \o Blob(Tail(chunks))

\* reader.read() resolves with done: the blob is saved through a link and
\* its object URL revoked, then handleDownload's success and finally
ReadDone(i) ==
    /\ i \in 1..Len(tasks)
    /\ tasks[i].pc = "read"
    /\ saved' = [filename |-> ZipName(tasks[i].repo, tasks[i].branch),
                 via |-> "blob", bytes |-> Blob(tasks[i].chunks),
                 calls |-> Materialize]
    /\ success' = DownloadedMsg(tasks[i].repo, tasks[i].branch)
    /\ isDownloading' = FALSE
    /\ downloadProgress' = 0
    /\ tasks' = RemoveAt(tasks, i)
    /\ UNCHANGED <<build, repoUrl, branches, selectedBranch, customBranch,
                   token, isPrivate, isLoadingBranches, error, debounce,
                   branchReqs>>

(***************************************************************************)
(* Simulated progress (direct build): downloadRepository's interval and    *)
(* settle timeout.  The host runs the two timers' callbacks: none before   *)
(* it is due, and of two that are due the one due earlier first.  How late *)
(* a callback runs is the host's choice (a busy main thread, a throttled   *)
(* background tab), and the interval is next due IntervalMs after its      *)
(* callback ran.  So the first tick runs before the timeout, and a tick    *)
(* that cannot be due by SettleMs runs after it; between the two the       *)
(* timeout can run after any tick.                                         *)
(***************************************************************************)
\* the earliest the interval of a task that has ticked `progress` up can
\* be due next, in ms after the click
EarliestTickDue(progress) == ((progress \div ProgressStep) + 1) * IntervalMs

\* the interval's callback
IntervalTick(i) ==
    /\ i \in 1..Len(tasks)
    /\ tasks[i].interval
    /\ tasks[i].pc = "settle" => EarliestTickDue(tasks[i].progress) <= SettleMs
    /\ LET progress == tasks[i].progress + ProgressStep
           ticked   == [tasks EXCEPT ![i].progress = progress,
                                     ![i].interval = ~(progress >= ProgressStop)]
       IN  /\ downloadProgress' = progress
           /\ tasks' = IF tasks[i].pc = "done" /\ progress >= ProgressStop
                       THEN RemoveAt(tasks, i)
                       ELSE ticked
    /\ saved' = NoSave
    /\ UNCHANGED <<build, repoUrl, branches, selectedBranch, customBranch,
                   token, isPrivate, isDownloading, isLoadingBranches, error,
                   success, debounce, branchReqs>>

\* what is left of an invocation of handleDownload that has returned while
\* its interval is still set: the interval's callback and its counter
IntervalOnly(task) ==
    [task EXCEPT !.pc = "done", !.owner = <<>>, !.repo = <<>>, !.branch = ""]

\* the settle timeout resolves the awaited promise, once the interval,
\* due before it, has ticked: handleDownload's success and finally
SettleTimeout(i) ==
    /\ i \in 1..Len(tasks)
    /\ tasks[i].pc = "settle"
    /\ tasks[i].progress >= ProgressStep
    /\ success' = InitiatedMsg(tasks[i].repo, tasks[i].branch)
    /\ isDownloading' = FALSE
    /\ downloadProgress' = 0
    /\ tasks' = IF tasks[i].interval
                THEN [tasks EXCEPT ![i] = IntervalOnly(tasks[i])]
                ELSE RemoveAt(tasks, i)
    /\ saved' = NoSave
    /\ UNCHANGED <<build, repoUrl, branches, selectedBranch, customBranch,
                   token, isPrivate, isLoadingBranches, error, debounce,
                   branchReqs>>

(***************************************************************************)
(* Spec: both builds, every interleaving of the user's edits, the timers   *)
(* and the network's answers, over a small choice of answers.              *)
(***************************************************************************)
\* the branch listings the remote answers with
SomeBranchLists ==
    {<<>>, <<[name |-> "dev"], [name |-> "main"]>>}

\* the answers to a listing request: the fetch rejects, not found, a
\* listing, a body cut off
SomeBranchResponses ==
    {r \in BranchResponses :
        /\ r.kind = "http" => r.status \in {200, 404}
        /\ r.json \in {"none", "array", "rejected"}
        /\ r.json = "array" => r.data \in SomeBranchLists
        /\ r.json = "rejected" => r.reason = TransportMsg}

\* the answers to the zipball request: a redirect, with a location or
\* without (read as it is, or delivered as an opaque redirect), not found
SomeFirstResponses ==
    {r \in FirstResponses : r.kind = "http" /\ r.status \in {302, 404}}

\* the answers to the request to the location: the archive with its
\* length declared, with a stream or without, a server error, a rejected
\* fetch
SomeSecondResponses ==
    {r \in SecondResponses :
        /\ r.kind = "http" => r.status \in {200, 500}
        /\ r.status = 200 => r.contentLength = MaxTotal}

\* the branches the user picks in the select
SomeBranchNames == {"main", "master", "develop", "dev"}

\* the message of a rejected read on the host Spec runs the page on
SomeReadErrorMsgs == {<<"network error">>}

Next ==
    \/ \E url \in Urls : SetRepoUrl(url)
    \/ TogglePrivate
    \/ \E t \in Tokens : SetToken(t)
    \/ \E b \in SomeBranchNames : SelectBranch(b)
    \/ \E c \in CustomBranches : SetCustomBranch(c)
    \/ AutoLoadTimer
    \/ \E i \in 1..MaxBranchReqs, resp \in SomeBranchResponses :
          BranchesAnswered(i, resp)
    \/ \E i \in 1..MaxBranchReqs, resp \in SomeBranchResponses :
          BranchesLoaded(i, resp)
    \/ ClickDownload
    \/ \E i \in 1..MaxTasks, resp \in SomeFirstResponses :
          FirstResponse(i, resp)
    \/ \E i \in 1..MaxTasks, resp \in SomeSecondResponses :
          SecondResponse(i, resp)
    \/ \E i \in 1..MaxTasks, n \in ChunkSizes : ReadChunk(i, n)
    \/ \E i \in 1..MaxTasks, message \in SomeReadErrorMsgs :
          ReadError(i, message)
    \/ \E i \in 1..MaxTasks : ReadDone(i)
    \/ \E i \in 1..MaxTasks : IntervalTick(i)
    \/ \E i \in 1..MaxTasks : SettleTimeout(i)

Spec == Init /\ [][Next]_vars

(***************************************************************************)
(* SpecRetrieval: the api build's archive retrieval over every answer of   *)
(* the remote, from a form that is filled in and left alone but for the    *)
(* branch select.                                                          *)
(***************************************************************************)
InitRetrieval ==
    /\ build = "api"
    /\ repoUrl = UrlA
    /\ branches = <<[name |-> "dev"], [name |-> "main"]>>
    /\ selectedBranch = "main"
    /\ customBranch = ""
    /\ token \in Tokens
    /\ isPrivate \in BOOLEAN
    /\ isDownloading = FALSE
    /\ isLoadingBranches = FALSE
    /\ downloadProgress = 0
    /\ error = NoMessage
    /\ success = NoMessage
    /\ debounce = FALSE
    /\ branchReqs = <<>>
    /\ tasks = <<>>
    /\ saved = NoSave

NextRetrieval ==
    \/ \E b \in BranchNames : SelectBranch(b)
    \/ ClickDownload
    \/ \E i \in 1..MaxTasks, resp \in FirstResponses : FirstResponse(i, resp)
    \/ \E i \in 1..MaxTasks, resp \in SecondResponses : SecondResponse(i, resp)
    \/ \E i \in 1..MaxTasks, n \in ChunkSizes : ReadChunk(i, n)
    \/ \E i \in 1..MaxTasks, message \in ReadErrorMsgs : ReadError(i, message)
    \/ \E i \in 1..MaxTasks : ReadDone(i)

SpecRetrieval == InitRetrieval /\ [][NextRetrieval]_vars

(***************************************************************************)
(* SpecBranches: the api build's branch resolution over every answer of    *)
(* the remote, under edits of the URL, the privacy flag and the branch     *)
(* select, with no token entered and no download.                          *)
(***************************************************************************)
InitBranches == Init /\ build = "api"

NextBranches ==
    \/ \E url \in Urls \cup {UrlB} : SetRepoUrl(url)
    \/ TogglePrivate
    \/ \E b \in BranchNames : SelectBranch(b)
    \/ AutoLoadTimer
    \/ \E i \in 1..MaxBranchReqs, resp \in BranchResponses :
          BranchesAnswered(i, resp)
    \/ \E i \in 1..MaxBranchReqs, resp \in BranchResponses :
          BranchesLoaded(i, resp)

SpecBranches == InitBranches /\ [][NextBranches]_vars

(***************************************************************************)
(* SpecAttempts: download attempts of both builds from a filled form, over *)
(* every answer of the remote; every pending request, stream read and      *)
(* timer eventually completes.                                             *)
(***************************************************************************)
\* the form of the direct build after a valid URL was typed
InitDirectForm ==
    /\ build = "direct"
    /\ repoUrl = UrlA
    /\ branches = CommonBranches
    /\ selectedBranch = "main"
    /\ customBranch = ""
    /\ token = ""
    /\ isPrivate = FALSE
    /\ isDownloading = FALSE
    /\ isLoadingBranches = FALSE
    /\ downloadProgress = 0
    /\ error = NoMessage
    /\ success = NoMessage
    /\ debounce = FALSE
    /\ branchReqs = <<>>
    /\ tasks = <<>>
    /\ saved = NoSave

InitAttempts == InitRetrieval \/ InitDirectForm

\* the pending reader.read() of some attempt settles
StreamStep ==
    \E i \in 1..MaxTasks :
        \/ \E n \in ChunkSizes : ReadChunk(i, n)
        \/ \E message \in ReadErrorMsgs : ReadError(i, message)
        \/ ReadDone(i)

NextAttempts ==
    \/ \E b \in SomeBranchNames : SelectBranch(b)
    \/ \E c \in CustomBranches : SetCustomBranch(c)
    \/ ClickDownload
    \/ \E i \in 1..MaxTasks, resp \in FirstResponses : FirstResponse(i, resp)
    \/ \E i \in 1..MaxTasks, resp \in SecondResponses : SecondResponse(i, resp)
    \/ StreamStep
    \/ \E i \in 1..MaxTasks : IntervalTick(i)
    \/ \E i \in 1..MaxTasks : SettleTimeout(i)

\* each pending request, read and timer eventually completes
Completion ==
    /\ WF_vars(\E i \in 1..MaxTasks, resp \in FirstResponses :
                   FirstResponse(i, resp))
    /\ WF_vars(\E i \in 1..MaxTasks, resp \in SecondResponses :
                   SecondResponse(i, resp))
    /\ WF_vars(StreamStep)
    /\ WF_vars(\E i \in 1..MaxTasks : IntervalTick(i))
    /\ WF_vars(\E i \in 1..MaxTasks : SettleTimeout(i))

SpecAttempts == InitAttempts /\ [][NextAttempts]_vars /\ Completion

(***************************************************************************)
(* SpecUrls: the api build's URL resolution (validateGitHubUrl, then       *)
(* extractRepoInfo, as loadBranches applies them) over repository URLs in  *)
(* all their written forms and over strings that are no repository URL.    *)
(***************************************************************************)
\* owner and repository names made of the characters [\w.-]
OwnerNames == {<<"a">>}
RepoNames == {<<"r">>, <<"r", "-", "1">>, <<"r">> \o DotGit, DotGit}

\* the written forms of one repository: bare, with a trailing '/', with a
\* trailing '.git'
UrlForms(owner, repo) ==
    LET bare == HttpsGithub \o owner \o <<"/">> \o repo
    IN  {bare, bare \o <<"/">>, bare \o DotGit}

RepoUrls == UNION {UrlForms(o, r) : o \in OwnerNames, r \in RepoNames}

\* strings of no such form: empty, another scheme, no repository segment,
\* a third segment, a character outside [\w.-], text before the scheme
OtherStrings ==
    {EmptyUrl, UrlHttp,
     HttpsGithub \o <<"a">>,
     HttpsGithub \o <<"a", "/">>,
     HttpsGithub \o <<"a", "/", "r", "/", "x">>,
     HttpsGithub \o <<"a", "/", "r", "%">>,
     <<"x">> \o UrlA}

TypedUrls == RepoUrls \cup OtherStrings

NextUrls ==
    \/ \E url \in TypedUrls : SetRepoUrl(url)
    \/ AutoLoadTimer
    \/ \E i \in 1..MaxBranchReqs, resp \in SomeBranchResponses :
          BranchesAnswered(i, resp)
    \/ \E i \in 1..MaxBranchReqs, resp \in SomeBranchResponses :
          BranchesLoaded(i, resp)

SpecUrls == InitBranches /\ [][NextUrls]_vars

(***************************************************************************)
(* SpecRemote: the api build's branch resolution against a remote whose    *)
(* state is fixed: what a listing request is answered with depends on the  *)
(* repository and the credential it was sent for, not on when it is        *)
(* answered.                                                               *)
(***************************************************************************)
\* the remote: a/r is public with branches dev and main; a/s is private
\* with the one branch dev; nothing else exists
RemoteAnswer(req) ==
    IF req.repo = <<"r">>
    THEN [kind |-> "http", status |-> 200, json |-> "array",
          data |-> <<[name |-> "dev"], [name |-> "main"]>>,
          reason |-> NoMessage]
    ELSE IF req.repo = <<"s">> /\ req.auth # ""
    THEN [kind |-> "http", status |-> 200, json |-> "array",
          data |-> <<[name |-> "dev"]>>, reason |-> NoMessage]
    ELSE [kind |-> "http", status |-> 404, json |-> "none", data |-> <<>>,
          reason |-> NoMessage]

NextRemote ==
    \/ \E url \in Urls \cup {UrlB} : SetRepoUrl(url)
    \/ TogglePrivate
    \/ \E t \in Tokens : SetToken(t)
    \/ \E b \in BranchNames : SelectBranch(b)
    \/ AutoLoadTimer
    \/ \E i \in 1..Len(branchReqs) :
          BranchesAnswered(i, RemoteAnswer(branchReqs[i]))
    \/ \E i \in 1..Len(branchReqs) :
          BranchesLoaded(i, RemoteAnswer(branchReqs[i]))

SpecRemote == InitBranches /\ [][NextRemote]_vars

(***************************************************************************)
(* Claims.                                                                 *)
(***************************************************************************)
\* the handleDownload invocations whose retrieval is not over
InFlight == {i \in 1..Len(tasks) : tasks[i].pc # "done"}

\* C1: at most one archive retrieval is in flight at any time, and none is
\* unless isDownloading is set (which disables the download button).
C1_OneRetrievalAtATime ==
    /\ Cardinality(InFlight) <= 1
    /\ InFlight # {} => isDownloading

\* a retrieval is in flight and only the busy flag disables the button
C1_Witness ==
    /\ Cardinality(InFlight) = 1
    /\ isDownloading
    /\ selectedBranch # ""
    /\ repoUrl = UrlA

\* C2: a download action taken while the repository is marked private and the
\* token is empty ends with an error message set, sends no request, hands the
\* host nothing and leaves isDownloading false.
C2_PrivateWithoutTokenRejected ==
    [][(isPrivate /\ token = "" /\ ClickDownload)
          => /\ error' # NoMessage
             /\ ~isDownloading'
             /\ tasks' = tasks
             /\ saved' = NoSave]_vars

\* no branch is chosen: what the branch check of handleDownload looks at
NoBranchChosen ==
    IF build = "api" THEN selectedBranch = ""
    ELSE selectedBranch = "" /\ customBranch = ""

\* C3: a download action taken with an empty or malformed repository URL, or
\* with no branch chosen, ends with an error message set, sends no request,
\* hands the host nothing and leaves isDownloading false.
C3_InvalidInputRejected ==
    [][((repoUrl = EmptyUrl \/ repoUrl \in MalformedUrls \/ NoBranchChosen)
           /\ ClickDownload)
          => /\ error' # NoMessage
             /\ ~isDownloading'
             /\ tasks' = tasks
             /\ branchReqs' = branchReqs
             /\ saved' = NoSave]_vars

\* a download action was taken on a malformed URL and was turned down
C3_Witness ==
    /\ repoUrl \in MalformedUrls
    /\ error = InvalidUrlMsg
    /\ ~isDownloading
    /\ tasks = <<>>

\* list holds a branch of this name
HasBranch(list, name) == \E k \in 1..Len(list) : list[k].name = name

\* the default selection a listing calls for
ExpectedDefault(list) ==
    IF HasBranch(list, "main") THEN "main"
    ELSE IF HasBranch(list, "master") THEN "master"
    ELSE IF Len(list) > 0 THEN list[1].name
    ELSE ""

\* C4: after a successful branch listing the selected branch is 'main' if the
\* list holds it, else 'master' if the list holds it, else the first branch,
\* else empty when the list is empty, whatever was selected before.
C4_DefaultBranchSelected ==
    [][\A i \in 1..MaxBranchReqs, resp \in BranchResponses :
          (/\ resp.kind = "http"
           /\ Ok(resp.status)
           /\ resp.json = "array"
           /\ BranchesLoaded(i, resp))
             => selectedBranch' = ExpectedDefault(resp.data)]_vars

\* the sum of the chunks' lengths
RECURSIVE SumLen(_)
SumLen(chunks) ==
    IF chunks = <<>> THEN 0 ELSE Len(Head(chunks)) + SumLen(Tail(chunks))

\* C5: during one retrieval with a known positive total, progress is reported
\* once per chunk (and is what the page shows), the reported percentages
\* never decrease, and once the chunks sum to the total the last one is 100.
C5_ProgressMonotone ==
    \A i \in 1..Len(tasks) :
        (tasks[i].pc = "read" /\ tasks[i].total > 0)
           => /\ Len(tasks[i].reports) = Len(tasks[i].chunks)
              /\ \A k \in 1..(Len(tasks[i].reports) - 1) :
                    tasks[i].reports[k] <= tasks[i].reports[k + 1]
              /\ Len(tasks[i].reports) > 0
                    => downloadProgress
                          = tasks[i].reports[Len(tasks[i].reports)]
              /\ (tasks[i].chunks # <<>>
                    /\ SumLen(tasks[i].chunks) = tasks[i].total)
                    => tasks[i].reports[Len(tasks[i].reports)] = 100

\* two chunks have summed to the declared total: 50 then 100 was reported
C5_Witness ==
    \E i \in 1..Len(tasks) :
        /\ tasks[i].pc = "read"
        /\ tasks[i].total > 0
        /\ Len(tasks[i].chunks) >= 2
        /\ SumLen(tasks[i].chunks) = tasks[i].total
        /\ tasks[i].reports[1] < 100
        /\ downloadProgress = 100

\* C6: in every reachable state the progress percentage is an integer
\* in [0,100].
C6_ProgressInRange == downloadProgress \in 0..100

\* C7: when the zipball request is answered with a success status rather
\* than a redirect, the attempt does not fail: after the answer is handled
\* no error is set, and the download still runs or has ended in success.
C7_SuccessStatusIsArchive ==
    [][\A i \in 1..MaxTasks, resp \in FirstResponses :
          (resp.kind = "http" /\ Ok(resp.status) /\ FirstResponse(i, resp))
             => /\ error' = NoMessage
                /\ isDownloading' \/ success' # NoMessage]_vars

\* C8: when the zipball request is answered with a redirect status that
\* carries no location, the attempt ends in failure with the redirect error,
\* no second request is sent and the host is handed nothing, on every host.
C8_RedirectWithoutLocationFails ==
    [][\A i \in 1..MaxTasks, resp \in FirstResponses :
          (/\ resp.kind = "http"
           /\ resp.status = 302
           /\ ~resp.location
           /\ FirstResponse(i, resp))
             => /\ error' = <<"Download failed: ", "Failed to get download URL">>
                /\ success' = NoMessage
                /\ ~isDownloading'
                /\ InFlight' = {}
                /\ saved' = NoSave]_vars

\* the failure an answer's status calls for
StatusFailure(status) ==
    IF status = 404 THEN {DownloadFailedMsg(BranchNotFoundMsg)}
    ELSE IF status = 401 THEN {DownloadFailedMsg(BadTokenMsg)}
    ELSE {DownloadFailedMsg(ApiErrorMsg(status)),
          DownloadFailedMsg(DownloadStatusMsg(status))}

\* C9: for the answer to the zipball request and the answer to the request to
\* the location alike, a not-found status yields the not-found failure, an
\* unauthorized status the auth failure, any other non-success status the
\* network failure carrying the status, and a success answer with no
\* readable stream the stream failure.
C9_StatusMapping ==
    [][/\ \A i \in 1..MaxTasks, resp \in FirstResponses :
             (/\ resp.kind = "http"
              /\ resp.status \notin RedirectStatuses /\ ~Ok(resp.status)
              /\ FirstResponse(i, resp))
                => error' \in StatusFailure(resp.status)
       /\ \A i \in 1..MaxTasks, resp \in SecondResponses :
             (resp.kind = "http" /\ SecondResponse(i, resp))
                => /\ ~Ok(resp.status) => error' \in StatusFailure(resp.status)
                   /\ (Ok(resp.status) /\ ~resp.body)
                         => error' = DownloadFailedMsg(NoStreamMsg)]_vars

\* the message a failed branch listing calls for
ListingFailure(resp) ==
    IF resp.kind = "transport" THEN <<"Failed to fetch">>
    ELSE IF resp.status = 404
    THEN <<"Repository not found or you don't have access to it">>
    ELSE IF resp.status = 401
    THEN <<"Invalid GitHub token or insufficient permissions">>
    ELSE IF ~Ok(resp.status)
    THEN <<"GitHub API error: ", StatusText(resp.status)>>
    ELSE resp.reason

\* C10: whenever a branch-listing request fails (not found, unauthorized,
\* another non-success status, a transport failure of the request or of the
\* reading of the body), once the failure is handled the error message is
\* that of the failure, the branch list and the selection are empty, and
\* the failure starts or stops no download.
C10_ListingFailureHandled ==
    [][\A i \in 1..MaxBranchReqs, resp \in BranchResponses :
          (\/ (resp.kind = "transport" \/ ~Ok(resp.status))
                 /\ BranchesAnswered(i, resp)
           \/ resp.json = "rejected" /\ BranchesLoaded(i, resp))
             => /\ error' = ListingFailure(resp)
                /\ branches' = <<>>
                /\ selectedBranch' = ""
                /\ isDownloading' = isDownloading
                /\ tasks' = tasks]_vars

\* a branch listing was answered with not-found
C10_Witness ==
    /\ error = <<"Repository not found or you don't have access to it">>
    /\ branches = <<>>
    /\ selectedBranch = ""


\* the URLs the validator turns down: the empty one and the malformed ones
InvalidUrls == {EmptyUrl} \cup MalformedUrls

\* C11: when a change of the repository URL to an empty or invalid value is
\* processed (api build: the auto-load timer fires; direct build: the effect
\* of the change itself), the branch list and the branch selection are
\* empty afterwards, no request is issued and the error message is left as
\* it was.
C11_InvalidUrlReturnsToIdle ==
    [][(\/ (build = "api" /\ repoUrl \in InvalidUrls /\ AutoLoadTimer)
        \/ (build = "direct" /\ \E url \in InvalidUrls : SetRepoUrl(url)))
          => /\ branches' = <<>>
             /\ selectedBranch' = ""
             /\ branchReqs' = branchReqs
             /\ tasks' = tasks
             /\ error' = error
             /\ saved' = NoSave]_vars

\* the timer has fired on a malformed URL typed over a repository whose
\* download had succeeded: nothing is listed, nothing selected, no error
C11_Witness ==
    /\ build = "api"
    /\ repoUrl \in MalformedUrls
    /\ ~debounce
    /\ success # NoMessage
    /\ branches = <<>>
    /\ selectedBranch = ""
    /\ error = NoMessage
    /\ branchReqs = <<>>


\* C12: every download attempt that enters Downloading eventually leaves
\* it, after success and after every kind of failure, given that each
\* pending request, stream read and timer eventually completes.
C12_DownloadingEnds == isDownloading ~> ~isDownloading

\* an attempt has failed and the download button is enabled again
C12_Witness ==
    /\ build = "api"
    /\ error = DownloadFailedMsg(DownloadStatusMsg(500))
    /\ ~isDownloading
    /\ ~DownloadDisabledApi
    /\ tasks = <<>>


\* the progress an attempt has itself reported so far: the last percentage
\* of its read loop (api build), the count of its own interval (direct
\* build); 0 when it has reported none
OwnProgress(task) ==
    IF build = "api"
    THEN IF task.reports = <<>> THEN 0
         ELSE task.reports[Len(task.reports)]
    ELSE task.progress

\* C13: the progress percentage is reset to 0 at the start of every
\* download attempt and from then on holds only what this attempt has
\* reported: no value of an earlier attempt is visible in, or written into,
\* the running one.
C13_ProgressOfThisAttempt ==
    \A i \in InFlight : downloadProgress = OwnProgress(tasks[i])


\* the branch the direct build is to download: the custom name when one is
\* entered, the selected common branch otherwise
WantedBranch == IF customBranch = "" THEN selectedBranch ELSE customBranch

\* C14: in the direct build a download action that starts a download
\* downloads the custom branch when it is non-empty and the selected branch
\* otherwise, and the action is turned down for a missing branch only when
\* both are empty.
C14_CustomBranchOverrides ==
    [][(build = "direct" /\ ClickDownload)
          => /\ error' = SelectOrCustomBranchMsg
                   => (customBranch = "" /\ selectedBranch = "")
             /\ isDownloading'
                   => /\ tasks'[Len(tasks')].branch = WantedBranch
                      /\ saved'.via = "link"
                      /\ saved'.filename =
                             ZipName(tasks'[Len(tasks')].repo, WantedBranch)]_vars

\* the custom branch v1 is being downloaded although main is selected
C14_Witness ==
    /\ build = "direct"
    /\ customBranch = "v1"
    /\ selectedBranch = "main"
    /\ isDownloading
    /\ \E i \in InFlight : tasks[i].branch = "v1"
    /\ saved.filename = ZipName(<<"r">>, "v1")


\* the (owner, repo) pairs of which url is a written form
Identities(url) ==
    {p \in OwnerNames \X RepoNames : url \in UrlForms(p[1], p[2])}

\* C15: URL resolution succeeds exactly for the strings of the shape
\* https://github.com/<owner>/<repo>, bare or with a trailing '/' or a
\* trailing '.git', and yields the (owner, repo) the string is a form of,
\* the same for all three forms; every URL the validator accepts yields an
\* identity from the extractor.  Resolution is observed where loadBranches
\* applies it: a listing is requested for the resolved identity, or none.
C15_UrlResolution ==
    [][AutoLoadTimer
          => /\ (repoUrl # EmptyUrl /\ validateGitHubUrl(repoUrl))
                   => extractRepoInfo(repoUrl).found
             /\ IF Identities(repoUrl) = {}
                THEN branchReqs' = branchReqs
                ELSE /\ Len(branchReqs') = Len(branchReqs) + 1
                     /\ \A p \in Identities(repoUrl) :
                           /\ branchReqs'[Len(branchReqs')].owner = p[1]
                           /\ branchReqs'[Len(branchReqs')].repo = p[2]]_vars


\* C16: in no reachable state are a branch-listing request and an
\* archive-retrieval request in flight at the same time.
C16_ListingAndRetrievalSequential ==
    ~(/\ branchReqs # <<>>
      /\ \E i \in 1..Len(tasks) : tasks[i].pc \in {"fetch1", "fetch2", "read"})


\* a request is sent in this step: a new attempt sends its first, or a
\* running attempt sends another
RequestSent ==
    \/ Len(tasks') > Len(tasks)
    \/ \E i \in 1..Len(tasks) :
          i <= Len(tasks') /\ tasks'[i].fetches > tasks[i].fetches

\* C17: a download attempt of the api build sends one or two requests and
\* never more; the second is sent only when the first is answered with a
\* redirect carrying a location, and apart from that a request is sent only
\* by a download action of the user: a failure is followed by no retry.
C17_AtMostTwoRequests ==
    [][/\ \A i \in 1..Len(tasks') :
             /\ tasks'[i].fetches \in 1..2
             /\ tasks'[i].fetches = 2 <=> tasks'[i].pc \in {"fetch2", "read"}
       /\ RequestSent
             => \/ ClickDownload
                \/ \E i \in 1..MaxTasks, resp \in FirstResponses :
                      /\ resp.kind = "http"
                      /\ resp.status = 302
                      /\ resp.location
                      /\ FirstResponse(i, resp)
                      /\ tasks[i].fetches = 1
                      /\ tasks'[i].fetches = 2]_vars

\* the second request of an attempt is out, after a redirect with location
C17_Witness ==
    \E i \in 1..Len(tasks) : tasks[i].pc = "fetch2" /\ tasks[i].fetches = 2


\* the credential a request built now may carry: the token when the
\* repository is marked private and the token is non-empty, else none
AllowedCredential == IF isPrivate /\ token # "" THEN token ELSE ""

\* C18: a credential is attached to a request only when the repository is
\* marked private and the credential is non-empty at the moment the request
\* is built: a branch-listing or zipball request built while the privacy
\* flag is off carries none even if a token is held, and the request to the
\* redirect location never carries one.
C18_CredentialOnlyWhenPrivate ==
    [][/\ (build = "api" /\ Len(branchReqs') > Len(branchReqs))
             => branchReqs'[Len(branchReqs')].auth = AllowedCredential
       /\ (build = "api" /\ Len(tasks') > Len(tasks))
             => tasks'[Len(tasks')].sent = AllowedCredential
       /\ \A i \in 1..Len(tasks') :
             tasks'[i].pc \in {"fetch2", "read"} => tasks'[i].sent = ""]_vars

\* a token is held, the privacy flag is off, and the zipball request built
\* in this state is out without a credential
C18_Witness ==
    /\ build = "api"
    /\ ~isPrivate
    /\ token = "ghp"
    /\ \E i \in 1..Len(tasks) : tasks[i].pc = "fetch1" /\ tasks[i].sent = ""


\* bytes holds the chunks one after the other, in their order
InArrivalOrder(bytes, chunks) ==
    /\ Len(bytes) = SumLen(chunks)
    /\ \A k \in 1..Len(chunks) : \A j \in 1..Len(chunks[k]) :
          bytes[SumLen(SubSeq(chunks, 1, k - 1)) + j] = chunks[k][j]

\* C19: in the api build a save is triggered only by the step in which the
\* stream signals end-of-data, which ends the attempt (so at most once per
\* attempt, and never by a failed one); the saved bytes are the received
\* chunks in arrival order, and the file name is '<repo>-<branch>.zip' for
\* the repository and branch the attempt captured when the download action
\* fired, whatever the inputs hold by then.
C19_SaveOnceAfterEnd ==
    [][build = "api"
          => /\ Len(tasks') > Len(tasks)
                   => /\ tasks'[Len(tasks')].repo = extractRepoInfo(repoUrl).repo
                      /\ tasks'[Len(tasks')].branch = selectedBranch
             /\ \A i \in 1..Len(tasks) :
                   (i <= Len(tasks') /\ tasks'[i].pc = tasks[i].pc)
                      => /\ tasks'[i].repo = tasks[i].repo
                         /\ tasks'[i].branch = tasks[i].branch
             /\ saved' # NoSave
                   => \E i \in 1..Len(tasks) :
                         /\ ReadDone(i)
                         /\ tasks' = RemoveAt(tasks, i)
                         /\ success' # NoMessage
                         /\ saved'.via = "blob"
                         /\ InArrivalOrder(saved'.bytes, tasks[i].chunks)
                         /\ saved'.filename =
                               tasks[i].repo \o <<"-", tasks[i].branch, ".zip">>]_vars

\* r-main.zip is saved with a 1-byte chunk followed by a 2-byte chunk,
\* after the branch select was moved to dev during the download
C19_Witness ==
    /\ build = "api"
    /\ saved.via = "blob"
    /\ saved.bytes = Chunk(1) \o Chunk(2)
    /\ saved.filename = <<"r", "-", "main", ".zip">>
    /\ selectedBranch = "dev"


\* C20: every object URL the materializer creates is revoked, and only
\* after the save was triggered by the click on the link; the calls are
\* made in the step that ends the attempt, so an attempt that has reached
\* its terminal state has left no object URL unrevoked.
C20_ObjectUrlReleased ==
    LET calls == saved.calls
    IN  /\ \A k \in 1..Len(calls) :
              calls[k] = "createObjectURL"
                 => \E m \in (k + 1)..Len(calls) :
                       calls[m] = "revokeObjectURL"
        /\ \A m \in 1..Len(calls) :
              calls[m] = "revokeObjectURL"
                 => \E c \in 1..(m - 1) : calls[c] = "click"
        /\ saved.via = "blob"
              => \E k \in 1..Len(calls) : calls[k] = "createObjectURL"

\* an attempt has ended with the blob saved through an object URL
C20_Witness ==
    /\ saved.via = "blob"
    /\ \E k \in 1..Len(saved.calls) : saved.calls[k] = "createObjectURL"
    /\ success # NoMessage
    /\ ~isDownloading
    /\ tasks = <<>>


\* C21: in every reachable state the branch selection is empty or the name
\* of a branch in the current branch list; with an empty list the selection
\* is empty.
C21_SelectionIsListed ==
    \/ selectedBranch = ""
    \/ \E k \in 1..Len(branches) : branches[k].name = selectedBranch


\* C22: the error message and the success message are never both non-empty
\* in the same state.
C22_ErrorXorSuccess == ~(error # NoMessage /\ success # NoMessage)


\* the request loadBranches would send for the inputs as they are now
CurrentRequest ==
    [owner |-> extractRepoInfo(repoUrl).owner,
     repo  |-> extractRepoInfo(repoUrl).repo,
     auth  |-> IF isPrivate THEN token ELSE ""]

\* C23: once the auto-load timer has fired and every pending listing
\* request has settled, the branch list is the one the remote returns for
\* the current URL, privacy flag and credential (empty when that listing
\* fails), and it is empty when the current URL is empty or invalid: an
\* answer to a request sent for earlier inputs has not overwritten it.
C23_SettledListIsCurrent ==
    (~debounce /\ branchReqs = <<>>)
       => IF repoUrl = EmptyUrl \/ ~validateGitHubUrl(repoUrl)
          THEN branches = <<>>
          ELSE branches = fetchBranches(RemoteAnswer(CurrentRequest)).data


\* C24: the branch-loading indicator is true exactly while at least one
\* branch-listing request is in flight.
C24_LoadingWhileInFlight == isLoadingBranches <=> branchReqs # <<>>


\* C25: whenever no download is in progress the progress percentage is 0:
\* once an attempt has reached its terminal state none of its progress
\* updates changes the value any more.
C25_ProgressZeroWhenIdle == ~isDownloading => downloadProgress = 0

=============================================================================
